---- MODULE Spec2Model ----
(***************************************************************************)
(* A model of quickstartutil.py: the process runner (_BaseOsx), the path   *)
(* helper (_Osx_Win32), the svn wrapper (Svn), the git wrapper (Git) and   *)
(* the archive helper (Zip).                                               *)
(*                                                                         *)
(* The library is synchronous and single threaded.  One action models one  *)
(* call of a public operation, from entry to return or raise.  The         *)
(* external tools are the environment: every process the library starts    *)
(* gets a response (raw return code and combined output) drawn from a      *)
(* bounded set.  The observable result of a call is kept in the state:     *)
(*   call    the operation and its arguments                               *)
(*   cmds    the processes started by the call, in order                   *)
(*   raised  the exception that left the call (NoExc when it returned)     *)
(*   ret     the value returned                                            *)
(* next to the state that outlives a call: the platform flags, the file    *)
(* system, the working directory and the fields of the wrapper objects.    *)
(* The file system is kept twice: fs has the kind of each path the tools   *)
(* work on, files has the content of the trees the archive helper reads    *)
(* and writes.                                                             *)
(***************************************************************************)
EXTENDS Integers, Sequences, FiniteSets, TLC

VARIABLES
    IS_OS_WIN32,             \* _IS_OS_WIN32
    PY3,                     \* _PY3
    fs,                      \* the file system: path -> kind
    files,                   \* the file system: path -> kind and content
    cwd,                     \* os.getcwd()
    redirect_output_to_log,  \* the Osx object's field, per owner object
    svn_fields,              \* the Svn object's fields
    call, cmds, raised, ret

vars == <<IS_OS_WIN32, PY3, fs, files, cwd, redirect_output_to_log,
          svn_fields, call, cmds, raised, ret>>

platform == <<IS_OS_WIN32, PY3>>


(***************************************************************************)
(* Bounds.                                                                 *)
(***************************************************************************)
MaxRetCode == 2     \* raw return codes: -1, 0..MaxRetCode, 256*k, 256*k+1
MaxRev == 10        \* revision numbers 1..MaxRev
MaxTemp == 1        \* names tempfile.mktemp can hand out
MaxDepth == 2       \* nesting depth of the directory trees that are zipped

(***************************************************************************)
(* Values.                                                                 *)
(***************************************************************************)
PyNone == "<None>"   \* Python's None in a slot that otherwise holds a string

RetCodes == {-1} \cup (0..MaxRetCode)
            \cup {256 * k + j : k \in 1..MaxRetCode, j \in 0..1}

StartsWith(s, prefix) ==
    /\ Len(s) >= Len(prefix)
    /\ SubSeq(s, 1, Len(prefix)) = prefix

\* s[i:] of Python, i counted from 0
SliceFrom(s, i) == IF Len(s) > i THEN SubSeq(s, i + 1, Len(s)) ELSE ""

\* s[0:n] of Python
SliceTo(s, n) == IF Len(s) >= n THEN SubSeq(s, 1, n) ELSE s

\* s.find(sep) of Python: the index, counted from 0, of the first occurrence
\* of sep in s, -1 when there is none
find(s, sep) ==
    LET at == {i \in 1..(Len(s) - Len(sep) + 1) :
                    SubSeq(s, i, i + Len(sep) - 1) = sep}
    IN  IF at = {} THEN -1
        ELSE (CHOOSE i \in at : \A j \in at : i <= j) - 1

\* s.split(sep) of Python
RECURSIVE split(_, _)
split(s, sep) ==
    LET i == find(s, sep)
    IN  IF i = -1 THEN <<s>>
        ELSE <<SliceTo(s, i)>> \o split(SliceFrom(s, i + Len(sep)), sep)

\* s.rstrip(ch) of Python for a single character ch
RECURSIVE rstrip(_, _)
rstrip(s, ch) ==
    IF Len(s) > 0 /\ SubSeq(s, Len(s), Len(s)) = ch
    THEN rstrip(SubSeq(s, 1, Len(s) - 1), ch)
    ELSE s

\* fp.readline() on a file just opened: the text up to the first newline,
\* the newline included
readline(text) ==
    LET i == find(text, "\n")
    IN  IF i = -1 THEN text ELSE SliceTo(text, i + 1)

\* s.splitlines() of Python for a text whose lines end in '\n' or '\r\n'
RECURSIVE splitlines(_)
splitlines(s) ==
    IF s = "" THEN <<>>
    ELSE LET i == find(s, "\n")
             line == IF i = -1 THEN s ELSE SliceTo(s, i)
             rest == IF i = -1 THEN "" ELSE SliceFrom(s, i + 1)
         IN  <<IF Len(line) > 0 /\ SubSeq(line, Len(line), Len(line)) = "\r"
               THEN SubSeq(line, 1, Len(line) - 1) ELSE line>>
             \o splitlines(rest)

(***************************************************************************)
(* Exceptions.  One record shape for all of them; a field an exception     *)
(* class does not have keeps the filler value.                             *)
(***************************************************************************)
NoExc ==
    [type |-> "None", cmd |-> "", code |-> 0, output |-> PyNone, msg |-> "",
     path |-> "", lock_owner |-> "", lock_comment |-> "", lock_date |-> "",
     dst |-> ""]

OsxSystemExecError(cmd, code, output, msg) ==
    [NoExc EXCEPT !.type = "OsxSystemExecError", !.cmd = cmd, !.code = code,
                  !.output = output, !.msg = msg]

OsxPathNotExistError(path) ==
    [NoExc EXCEPT !.type = "OsxPathNotExistError", !.path = path]

OsxPathAlreadyExistError(path) ==
    [NoExc EXCEPT !.type = "OsxPathAlreadyExistError", !.path = path]

OsxPathTypeUnsupportedError(path, msg) ==
    [NoExc EXCEPT !.type = "OsxPathTypeUnsupportedError", !.path = path,
                  !.msg = msg]

SvnNoMessageError(str_operation) ==
    [NoExc EXCEPT !.type = "SvnNoMessageError",
                  !.msg = "svn: " \o str_operation \o " must give a message"]

SvnAlreadyLockedError(path, lock_owner, lock_comment, lock_date) ==
    [NoExc EXCEPT !.type = "SvnAlreadyLockedError", !.path = path,
                  !.lock_owner = lock_owner, !.lock_comment = lock_comment,
                  !.lock_date = lock_date]

SvnBranchDestinationAlreadyExistError(dst) ==
    [NoExc EXCEPT !.type = "SvnBranchDestinationAlreadyExistError",
                  !.dst = dst]

\* an exception of the Python runtime (OSError, KeyError, ...)
BuiltinError(type, what) == [NoExc EXCEPT !.type = type, !.msg = what]

GitParseMetaDataError(msg) ==
    [NoExc EXCEPT !.type = "GitParseMetaDataError",
                  !.msg = "git meta data error: " \o msg]

(***************************************************************************)
(* The process runner.  A response r is what the started process does:     *)
(* r.code its raw return code, r.out its combined stdout and stderr.       *)
(* Each runner operator yields the process started (proc), the exception   *)
(* raised (raised) and the value returned (ret).                           *)
(***************************************************************************)
Proc(cmd, shell, via, r) ==
    [cmd |-> cmd, shell |-> shell, via |-> via, code |-> r.code, out |-> r.out]

CalledProcessErrorStr(cmd, returncode) ==
    "Command '" \o cmd \o "' returned non-zero exit status " \o ToString(returncode)

_fix_cmd_retcode(retcode) ==
    IF IS_OS_WIN32 THEN retcode ELSE retcode \div 256

_system_exec_1(cmd, shell, r) ==
    [proc |-> Proc(cmd, shell, "check_call", r),
     raised |->
        IF r.code # 0
        THEN LET final_code == _fix_cmd_retcode(r.code)
             IN  OsxSystemExecError(cmd, final_code, PyNone,
                    "subprocess.check_call failed(" \o ToString(final_code)
                    \o "): " \o CalledProcessErrorStr(cmd, r.code))
        ELSE NoExc,
     ret |-> PyNone]

\* _system_exec_2 that passes no output to the error
_system_exec_2_no_output(cmd, shell, r) ==
    [proc |-> Proc(cmd, shell, "check_output", r),
     raised |->
        IF r.code # 0
        THEN LET final_code == _fix_cmd_retcode(r.code)
             IN  OsxSystemExecError(cmd, final_code, PyNone,
                    "subprocess.check_output failed(" \o ToString(final_code)
                    \o "): " \o CalledProcessErrorStr(cmd, r.code))
        ELSE NoExc,
     ret |-> PyNone]

_system_exec_2(cmd, shell, r) ==
    [proc |-> Proc(cmd, shell, "check_output", r),
     raised |->
        IF r.code # 0
        THEN LET final_code == _fix_cmd_retcode(r.code)
             IN  OsxSystemExecError(cmd, final_code, r.out,
                    "subprocess.check_output failed(" \o ToString(final_code)
                    \o "): " \o CalledProcessErrorStr(cmd, r.code))
        ELSE NoExc,
     ret |-> PyNone]

system_exec(cmd, shell, redirect, r) ==
    IF redirect THEN _system_exec_2(cmd, shell, r)
                ELSE _system_exec_1(cmd, shell, r)

\* system_output that reports the raw return code on every platform
system_output_rawcode(cmd, shell, r) ==
    [proc |-> Proc(cmd, shell, "check_output", r),
     raised |->
        IF r.code # 0
        THEN OsxSystemExecError(cmd, r.code, r.out,
                    "subprocess.check_output failed(" \o ToString(r.code)
                    \o "): " \o CalledProcessErrorStr(cmd, r.code))
        ELSE NoExc,
     ret |-> IF r.code # 0 THEN PyNone ELSE r.out]

system_output(cmd, shell, r) ==
    [proc |-> Proc(cmd, shell, "check_output", r),
     raised |->
        IF r.code # 0
        THEN LET final_code == IF IS_OS_WIN32 THEN r.code ELSE r.code \div 256
             IN  OsxSystemExecError(cmd, final_code, r.out,
                    "subprocess.check_output failed(" \o ToString(final_code)
                    \o "): " \o CalledProcessErrorStr(cmd, r.code))
        ELSE NoExc,
     ret |-> IF r.code # 0 THEN PyNone ELSE r.out]

(***************************************************************************)
(* A call and its end.  The library is called by one thread: a call starts *)
(* when no result is pending (Idle), runs to its end and leaves its result *)
(* in call, cmds, raised and ret; Return is the caller taking the result.  *)
(***************************************************************************)
NoCall == [name |-> "none"]

Idle == call = NoCall

Finish(c, procs, exc, value) ==
    /\ Idle
    /\ call' = c
    /\ cmds' = procs
    /\ raised' = exc
    /\ ret' = value

Return ==
    /\ ~Idle
    /\ call' = NoCall
    /\ cmds' = <<>>
    /\ raised' = NoExc
    /\ ret' = PyNone
    /\ UNCHANGED <<platform, files, fs, cwd, redirect_output_to_log,
                         svn_fields>>

(***************************************************************************)
(* Direct calls of the runner's class methods.                             *)
(***************************************************************************)
RunnerCmds == {"svn info wc", "dir wc", "git fetch"}

RunnerOutputs == {"", "ok", "svn: E155007: 'wc' is not a working copy"}

RunnerResponses == [code : RetCodes, out : RunnerOutputs]

SystemExec ==
    \E cmd \in RunnerCmds, shell \in BOOLEAN, redirect \in BOOLEAN,
       r \in RunnerResponses :
        LET o == system_exec(cmd, shell, redirect, r)
        IN  /\ Finish([name |-> "system_exec", cmd |-> cmd, shell |-> shell,
                       redirect_output_to_log |-> redirect],
                      <<o.proc>>, o.raised, o.ret)
            /\ UNCHANGED <<platform, files, fs, cwd, redirect_output_to_log,
                         svn_fields>>

SystemOutput ==
    \E cmd \in RunnerCmds, shell \in BOOLEAN, r \in RunnerResponses :
        LET o == system_output(cmd, shell, r)
        IN  /\ Finish([name |-> "system_output", cmd |-> cmd, shell |-> shell],
                      <<o.proc>>, o.raised, o.ret)
            /\ UNCHANGED <<platform, files, fs, cwd, redirect_output_to_log,
                         svn_fields>>

(***************************************************************************)
(* The file system.  A path is absent, a directory, a file, or something   *)
(* that exists and is neither (os.path.exists holds, isdir and isfile do   *)
(* not).  What a tool does to the file system when it exits with code 0 is *)
(* the tool's documented effect; a tool that fails changes nothing.        *)
(***************************************************************************)
UserPaths == {"wc", "wc/a.txt", "out", "repo"}

TempNames == {"C:\\Temp\\tmp" \o ToString(i) : i \in 1..MaxTemp}

AllPaths == UserPaths \cup TempNames

is_path_exist(f, path) == f[path] # "absent"

is_dir(f, path) == f[path] = "dir"

is_file(f, path) == f[path] = "file"

IsUnder(p, d) == StartsWith(p, d \o "/")

RemoveTree(f, path) ==
    [p \in DOMAIN f |-> IF p = path \/ IsUnder(p, path) THEN "absent" ELSE f[p]]

\* tempfile.mktemp(): names that do not exist now
mktemp(f) == {t \in TempNames : f[t] = "absent"}

\* os.path.normpath of ntpath on the paths used here (no '.', '..' or doubled
\* separators): every '/' becomes '\' and trailing separators are dropped
RECURSIVE SlashToBackslash(_)
SlashToBackslash(s) ==
    IF s = "" THEN ""
    ELSE (IF SubSeq(s, 1, 1) = "/" THEN "\\" ELSE SubSeq(s, 1, 1))
         \o SlashToBackslash(SliceFrom(s, 1))

RECURSIVE StripTrailingSep(_)
StripTrailingSep(s) ==
    IF Len(s) > 1 /\ SubSeq(s, Len(s), Len(s)) = "\\"
    THEN StripTrailingSep(SubSeq(s, 1, Len(s) - 1))
    ELSE s

normpath(path) == StripTrailingSep(SlashToBackslash(path))

IsSep(c) == c \in {"\\", "/"}

\* os.path.isabs of ntpath: a separator at the start, or after the drive
isabs(path) ==
    \/ IsSep(SliceTo(path, 1))
    \/ SliceFrom(SliceTo(path, 2), 1) = ":" /\ IsSep(SliceFrom(SliceTo(path, 3), 2))

\* os.path.join of ntpath for paths without a drive letter
join(a, b) ==
    IF StartsWith(b, "\\") \/ StartsWith(b, "/") THEN b
    ELSE IF a = "" \/ SubSeq(a, Len(a), Len(a)) \in {"\\", "/"} THEN a \o b
    ELSE a \o "\\" \o b

(***************************************************************************)
(* _Osx_Win32.  owner names the object whose Osx instance is used: the     *)
(* module's default osx, the one of the Svn object, the one of the Git     *)
(* object.  Each operator yields the processes started, the exception      *)
(* raised and the file system it leaves.                                   *)
(***************************************************************************)
Owners == {"osx", "svn", "git"}

_shell_command_list == {"dir", "del", "rd", "md"}

_is_shell_command(cmd) ==
    \E shell_cmd \in _shell_command_list : StartsWith(cmd, shell_cmd)

exec_command(owner, cmd, r) ==
    system_exec(cmd, _is_shell_command(cmd), redirect_output_to_log[owner], r)

exec_command_output(owner, cmd, r) ==
    system_output(cmd, _is_shell_command(cmd), r)

\* remove_path without its existence test
remove_path_unchecked(owner, f, path, force, r) ==
    IF is_dir(f, path)
    THEN LET o == exec_command(owner, "rd /s/q " \o normpath(path), r)
         IN  [procs |-> <<o.proc>>, raised |-> o.raised,
              fs |-> IF o.raised = NoExc THEN RemoveTree(f, path) ELSE f]
    ELSE IF is_file(f, path)
    THEN LET o == exec_command(owner, "del /f/q " \o normpath(path), r)
         IN  [procs |-> <<o.proc>>, raised |-> o.raised,
              fs |-> IF o.raised = NoExc THEN RemoveTree(f, path) ELSE f]
    ELSE [procs |-> <<>>,
          raised |-> OsxPathTypeUnsupportedError(path,
                        "'" \o path \o "' is not a valid file or directory path"),
          fs |-> f]

remove_path(owner, f, path, force, r) ==
    IF ~is_path_exist(f, path)
    THEN IF force
         THEN [procs |-> <<>>, raised |-> NoExc, fs |-> f]
         ELSE [procs |-> <<>>, raised |-> OsxPathNotExistError(path), fs |-> f]
    ELSE IF is_dir(f, path)
    THEN LET o == exec_command(owner, "rd /s/q " \o normpath(path), r)
         IN  [procs |-> <<o.proc>>, raised |-> o.raised,
              fs |-> IF o.raised = NoExc THEN RemoveTree(f, path) ELSE f]
    ELSE IF is_file(f, path)
    THEN LET o == exec_command(owner, "del /f/q " \o normpath(path), r)
         IN  [procs |-> <<o.proc>>, raised |-> o.raised,
              fs |-> IF o.raised = NoExc THEN RemoveTree(f, path) ELSE f]
    ELSE [procs |-> <<>>,
          raised |-> OsxPathTypeUnsupportedError(path,
                        "'" \o path \o "' is not a valid file or directory path"),
          fs |-> f]

\* excludes = PyNone stands for excludes=None; tmp is the name mktemp returned
copy_dir(owner, f, src_dir, dst_dir, excludes, tmp, r) ==
    IF excludes = PyNone
    THEN LET o == exec_command(owner,
                    "xcopy " \o normpath(src_dir) \o "\\* " \o normpath(dst_dir)
                    \o " /r/i/c/k/h/e/q/y", r)
         IN  [procs |-> <<o.proc>>, raised |-> o.raised,
              fs |-> IF o.raised = NoExc THEN [f EXCEPT ![dst_dir] = "dir"] ELSE f]
    ELSE LET written == [f EXCEPT ![tmp] = "file"]
             o == exec_command(owner,
                    "xcopy " \o normpath(src_dir) \o "\\* " \o normpath(dst_dir)
                    \o " /r/i/c/k/h/e/q/y/exclude:" \o tmp, r)
         IN  IF o.raised # NoExc
             THEN [procs |-> <<o.proc>>, raised |-> o.raised, fs |-> written]
             ELSE [procs |-> <<o.proc>>, raised |-> NoExc,
                   fs |-> [written EXCEPT ![dst_dir] = "dir", ![tmp] = "absent"]]

make_dir(owner, f, path, force, r) ==
    IF is_path_exist(f, path)
    THEN IF force
         THEN [procs |-> <<>>, raised |-> NoExc, fs |-> f]
         ELSE [procs |-> <<>>, raised |-> OsxPathAlreadyExistError(path), fs |-> f]
    ELSE LET o == exec_command(owner, "md " \o normpath(path), r)
         IN  [procs |-> <<o.proc>>, raised |-> o.raised,
              fs |-> IF o.raised = NoExc THEN [f EXCEPT ![path] = "dir"] ELSE f]

(***************************************************************************)
(* Calls of the default osx object.                                        *)
(***************************************************************************)
ToolOutputs == {"", "Access is denied."}

ToolResponses == [code : RetCodes, out : ToolOutputs]

\* the response of a call that starts no process is not consulted
FinishFs(c, o) ==
    /\ Finish(c, o.procs, o.raised, PyNone)
    /\ fs' = o.fs

set_redirect_output_to_log(owner, b) ==
    /\ IS_OS_WIN32
    /\ redirect_output_to_log' = [redirect_output_to_log EXCEPT ![owner] = b]
    /\ Finish([name |-> "set_redirect_output_to_log", owner |-> owner],
              <<>>, NoExc, PyNone)
    /\ UNCHANGED <<platform, files, fs, cwd, svn_fields>>

OsxSetRedirectOutputToLog ==
    \E b \in BOOLEAN : set_redirect_output_to_log("osx", b)

RemovePath ==
    \E path \in {"wc", "wc/a.txt", "out"}, force \in BOOLEAN,
       r \in ToolResponses :
        /\ IS_OS_WIN32
        /\ FinishFs([name |-> "remove_path", path |-> path, force |-> force,
                     fs |-> fs],
                    remove_path("osx", fs, path, force, r))
        /\ UNCHANGED <<platform, files, cwd, redirect_output_to_log,
                         svn_fields>>

ExcludeLists == {PyNone, ".svn\n.git\n"}

CopyDir ==
    \E src_dir \in {"wc"}, dst_dir \in {"out"}, excludes \in ExcludeLists,
       tmp \in mktemp(fs), r \in ToolResponses :
        /\ IS_OS_WIN32
        /\ FinishFs([name |-> "copy_dir", src_dir |-> src_dir, dst_dir |-> dst_dir,
                     excludes |-> excludes, tmp |-> tmp, fs |-> fs],
                    copy_dir("osx", fs, src_dir, dst_dir, excludes, tmp, r))
        /\ UNCHANGED <<platform, files, cwd, redirect_output_to_log,
                         svn_fields>>

MakeDir ==
    \E path \in {"out"}, force \in BOOLEAN, r \in ToolResponses :
        /\ IS_OS_WIN32
        /\ FinishFs([name |-> "make_dir", path |-> path, force |-> force,
                     fs |-> fs],
                    make_dir("osx", fs, path, force, r))
        /\ UNCHANGED <<platform, files, cwd, redirect_output_to_log,
                         svn_fields>>

(***************************************************************************)
(* Svn: the option strings.  A revision is an integer or a string (a       *)
(* symbolic name, '' or None); user_pass is None or a pair.                *)
(***************************************************************************)
RevInt(n) == [isint |-> TRUE, n |-> n, s |-> ""]

RevStr(s) == [isint |-> FALSE, n |-> 0, s |-> s]

\* '%s' % revision
RevText(revision) == IF revision.isint THEN ToString(revision.n) ELSE revision.s

NoUserPass == [none |-> TRUE, user |-> "", pass |-> ""]

UserPass(user, pass) == [none |-> FALSE, user |-> user, pass |-> pass]

\* stringing_user_pass_option that lets svn cache the credentials
stringing_user_pass_option_cached(user_pass) ==
    IF ~user_pass.none
    THEN "--username " \o user_pass.user \o " --password " \o user_pass.pass
    ELSE ""

stringing_user_pass_option(user_pass) ==
    IF ~user_pass.none
    THEN "--username " \o user_pass.user \o " --password " \o user_pass.pass
         \o " --no-auth-cache"
    ELSE ""

stringing_revision_option(revision) ==
    IF ~revision.isint /\ revision.s \in {PyNone, ""}
    THEN ""
    ELSE "-r " \o RevText(revision)

\* a range is a tuple or list of two revisions, anything else is a single one
Range(a, b) == [range |-> TRUE, a |-> a, b |-> b]

Single(a) == [range |-> FALSE, a |-> a, b |-> a]

stringing_revision_or_range_option(revision_or_range) ==
    IF revision_or_range.range
    THEN "-r " \o RevText(revision_or_range.a) \o ":" \o RevText(revision_or_range.b)
    ELSE "-c " \o RevText(revision_or_range.a)

stringing_message_option(message) == "-m \"" \o message \o "\""

is_url(url) ==
    \E prefix \in {"file:\\\\\\", "svn://", "http://", "https://"} :
        StartsWith(url, prefix)

\* 'not msg' of Python for a message that is a string or None
NotMsg(msg) == msg = "" \/ msg = PyNone

(***************************************************************************)
(* Svn: running a sub command with the object's Osx instance.              *)
(***************************************************************************)
svn_exec_sub_command(sub_command, r) ==
    exec_command("svn", svn_fields.base_command \o " " \o sub_command \o " "
                        \o svn_fields.str_interactive_option, r)

svn_exec_sub_command_output(sub_command, r) ==
    exec_command_output("svn", svn_fields.base_command \o " " \o sub_command
                        \o " " \o svn_fields.str_interactive_option, r)

(***************************************************************************)
(* The XML svn info prints.  A document is kept as the tree it stands for; *)
(* ToXml writes the tree as text, and fromstring, the parser, finds the    *)
(* tree of a text among the documents of the model.                        *)
(***************************************************************************)
NoLock == [present |-> FALSE, owner |-> "", has_comment |-> FALSE,
           comment |-> "", created |-> ""]

Lock(owner, has_comment, comment, created) ==
    [present |-> TRUE, owner |-> owner, has_comment |-> has_comment,
     comment |-> comment, created |-> created]

InfoDoc(revision, has_wc, lock) ==
    [revision |-> revision, has_wc |-> has_wc, lock |-> lock]

Locks ==
    {NoLock,
     Lock("bob", FALSE, "", "2015-03-01T08:00:00.000000Z"),
     Lock("carol", TRUE, "editing", "2015-04-02T09:30:00.000000Z")}

\* the documents of the model: one per revision number for a working copy
\* path, and for one revision every combination of the optional subtrees
RevisionInfoDocs == {InfoDoc(n, TRUE, NoLock) : n \in 1..MaxRev}

LockInfoDocs == {InfoDoc(5, w, l) : w \in BOOLEAN, l \in Locks}

InfoDocs == RevisionInfoDocs \cup LockInfoDocs

ToXml(d) ==
    "<info><entry kind=\"file\" path=\"a.txt\" revision=\"" \o ToString(d.revision)
    \o "\"><url>svn://host/repo/a.txt</url><relative-url>^/a.txt</relative-url>"
    \o "<repository><root>svn://host/repo</root><uuid>5e7d134a</uuid></repository>"
    \o (IF d.has_wc
        THEN "<wc-info><wcroot-abspath>C:/work/wc</wcroot-abspath>"
             \o "<schedule>normal</schedule><depth>infinity</depth></wc-info>"
        ELSE "")
    \o "<commit revision=\"" \o ToString(d.revision) \o "\"><author>alice</author>"
    \o "<date>2015-01-01T00:00:00.000000Z</date></commit>"
    \o (IF d.lock.present
        THEN "<lock><token>opaquelocktoken:1</token><owner>" \o d.lock.owner
             \o "</owner>"
             \o (IF d.lock.has_comment
                 THEN "<comment>" \o d.lock.comment \o "</comment>" ELSE "")
             \o "<created>" \o d.lock.created \o "</created></lock>"
        ELSE "")
    \o "</entry></info>"

fromstring(text) == CHOOSE d \in InfoDocs : ToXml(d) = text

(***************************************************************************)
(* Svn: the queries.  Each yields the processes started, the exception     *)
(* raised and the value computed.                                          *)
(***************************************************************************)
InfoCmd(path, revision) ==
    "info " \o path \o " --xml" \o " " \o stringing_revision_option(revision)
    \o (IF is_url(path) THEN " " \o svn_fields.str_user_pass_option ELSE "")

get_revision_number(path, revision, r) ==
    IF revision.isint
    THEN [procs |-> <<>>, raised |-> NoExc, value |-> revision.n]
    ELSE LET o == svn_exec_sub_command_output(InfoCmd(path, revision), r)
         IN  IF o.raised # NoExc
             THEN [procs |-> <<o.proc>>, raised |-> o.raised, value |-> 0]
             ELSE [procs |-> <<o.proc>>, raised |-> NoExc,
                   value |-> fromstring(o.ret).revision]

\* info_dict that keeps every key and fills an absent subtree with None
InfoRecordWithNulls(d) ==
    ("#kind" :> "file") @@ ("#path" :> "a.txt") @@ ("#revision" :> d.revision)
    @@ ("url" :> "svn://host/repo/a.txt") @@ ("relative-url" :> "^/a.txt")
    @@ ("repository" :> [root |-> "svn://host/repo", uuid |-> "5e7d134a"])
    @@ ("wc-info" :> IF d.has_wc
                     THEN [wcroot_abspath |-> "C:/work/wc", uuid |-> "normal",
                           depth |-> "infinity"]
                     ELSE [wcroot_abspath |-> PyNone, uuid |-> PyNone,
                           depth |-> PyNone])
    @@ ("commit" :> [revision |-> d.revision, author |-> "alice",
                     date |-> "2015-01-01T00:00:00.000000Z"])
    @@ ("lock" :> IF d.lock.present
                  THEN [token |-> "opaquelocktoken:1", owner |-> d.lock.owner,
                        comment |-> IF d.lock.has_comment THEN d.lock.comment
                                    ELSE PyNone,
                        created |-> d.lock.created]
                  ELSE [token |-> PyNone, owner |-> PyNone, comment |-> PyNone,
                        created |-> PyNone])

\* the dict info_dict builds from the entry node
InfoRecord(d) ==
    ("#kind" :> "file") @@ ("#path" :> "a.txt") @@ ("#revision" :> d.revision)
    @@ ("url" :> "svn://host/repo/a.txt") @@ ("relative-url" :> "^/a.txt")
    @@ ("repository" :> [root |-> "svn://host/repo", uuid |-> "5e7d134a"])
    @@ (IF d.has_wc
        THEN "wc-info" :> [wcroot_abspath |-> "C:/work/wc", uuid |-> "normal",
                           depth |-> "infinity"]
        ELSE <<>>)
    @@ ("commit" :> [revision |-> d.revision, author |-> "alice",
                     date |-> "2015-01-01T00:00:00.000000Z"])
    @@ (IF d.lock.present
        THEN "lock" :> [token |-> "opaquelocktoken:1", owner |-> d.lock.owner,
                        comment |-> IF d.lock.has_comment THEN d.lock.comment
                                    ELSE "",
                        created |-> d.lock.created]
        ELSE <<>>)

NoRecord == <<>>

info_dict(path, revision, r) ==
    LET o == svn_exec_sub_command_output(InfoCmd(path, revision), r)
    IN  IF o.raised # NoExc
        THEN [procs |-> <<o.proc>>, raised |-> o.raised, value |-> NoRecord]
        ELSE [procs |-> <<o.proc>>, raised |-> NoExc,
              value |-> InfoRecord(fromstring(o.ret))]

(***************************************************************************)
(* Svn: the operations.  r, r1, r2, r3 are the responses of the processes  *)
(* an operation starts, in the order it starts them.                       *)
(***************************************************************************)
\* commit without the test of its message
commit_unchecked(msg, path_list, include_external, r) ==
    LET o == svn_exec_sub_command(
                "commit " \o path_list
                \o (IF include_external THEN " --include-externals" ELSE "")
                \o " " \o stringing_message_option(msg)
                \o " " \o svn_fields.str_user_pass_option, r)
    IN  [procs |-> <<o.proc>>, raised |-> o.raised]

commit(msg, path_list, include_external, r) ==
    IF NotMsg(msg)
    THEN [procs |-> <<>>,
          raised |-> SvnNoMessageError("commit on '" \o path_list \o "'")]
    ELSE LET o == svn_exec_sub_command(
                    "commit " \o path_list
                    \o (IF include_external THEN " --include-externals" ELSE "")
                    \o " " \o stringing_message_option(msg)
                    \o " " \o svn_fields.str_user_pass_option, r)
         IN  [procs |-> <<o.proc>>, raised |-> o.raised]

\* lock_result[0:4] == 'svn:' where lock_result is what check_output
\* returned: a str on Python 2, bytes on Python 3, and bytes never equal a str
ResultStartsWithSvn(lock_result) ==
    IF PY3 THEN FALSE ELSE SliceTo(lock_result, 4) = "svn:"

\* lock that takes the lock fields of a repository URL from info as well
lock_info_for_url(file_path, msg, r1, r2) ==
    IF NotMsg(msg)
    THEN [procs |-> <<>>,
          raised |-> SvnNoMessageError("lock on '" \o file_path \o "'")]
    ELSE LET o == svn_exec_sub_command_output(
                    "lock " \o file_path
                    \o " " \o stringing_message_option(msg)
                    \o " " \o svn_fields.str_user_pass_option, r1)
         IN  IF o.raised # NoExc
             THEN [procs |-> <<o.proc>>, raised |-> o.raised]
             ELSE IF ~ResultStartsWithSvn(o.ret)
             THEN [procs |-> <<o.proc>>, raised |-> NoExc]
             ELSE LET i == info_dict(file_path, RevStr("HEAD"), r2)
                  IN  IF i.raised # NoExc
                      THEN [procs |-> <<o.proc>> \o i.procs, raised |-> i.raised]
                      ELSE IF "lock" \notin DOMAIN i.value
                      THEN [procs |-> <<o.proc>> \o i.procs,
                            raised |-> BuiltinError("KeyError", "lock")]
                      ELSE [procs |-> <<o.proc>> \o i.procs,
                            raised |-> SvnAlreadyLockedError(file_path,
                                         i.value["lock"].owner,
                                         i.value["lock"].comment,
                                         i.value["lock"].created)]

lock(file_path, msg, r1, r2) ==
    IF NotMsg(msg)
    THEN [procs |-> <<>>,
          raised |-> SvnNoMessageError("lock on '" \o file_path \o "'")]
    ELSE LET o == svn_exec_sub_command_output(
                    "lock " \o file_path
                    \o " " \o stringing_message_option(msg)
                    \o " " \o svn_fields.str_user_pass_option, r1)
         IN  IF o.raised # NoExc
             THEN [procs |-> <<o.proc>>, raised |-> o.raised]
             ELSE IF ~ResultStartsWithSvn(o.ret)
             THEN [procs |-> <<o.proc>>, raised |-> NoExc]
             ELSE IF is_url(file_path)
             THEN [procs |-> <<o.proc>>,
                   raised |-> SvnAlreadyLockedError(file_path, "None", "None",
                                                    "None")]
             ELSE LET i == info_dict(file_path, RevStr("HEAD"), r2)
                  IN  IF i.raised # NoExc
                      THEN [procs |-> <<o.proc>> \o i.procs, raised |-> i.raised]
                      ELSE IF "lock" \notin DOMAIN i.value
                      THEN [procs |-> <<o.proc>> \o i.procs,
                            raised |-> BuiltinError("KeyError", "lock")]
                      ELSE [procs |-> <<o.proc>> \o i.procs,
                            raised |-> SvnAlreadyLockedError(file_path,
                                         i.value["lock"].owner,
                                         i.value["lock"].comment,
                                         i.value["lock"].created)]

move(src, dst, msg, r) ==
    IF NotMsg(msg)
    THEN [procs |-> <<>>,
          raised |-> SvnNoMessageError("move '" \o src \o "' -> '" \o dst \o "'")]
    ELSE LET o == svn_exec_sub_command(
                    "move " \o src \o " " \o dst
                    \o " " \o stringing_message_option(msg)
                    \o " --force" \o " --parents"
                    \o " " \o svn_fields.str_user_pass_option, r)
         IN  [procs |-> <<o.proc>>, raised |-> o.raised]

BranchCopy(src, dst, msg, revision, r) ==
    svn_exec_sub_command(
        "copy " \o src \o " " \o dst
        \o " " \o stringing_revision_option(revision)
        \o " " \o stringing_message_option(msg)
        \o " --parents"
        \o " " \o svn_fields.str_user_pass_option, r)

\* branch that copies whatever the probe said
branch_ignore_probe(src, dst, msg, revision, r1, r2) ==
    IF NotMsg(msg)
    THEN [procs |-> <<>>,
          raised |-> SvnNoMessageError("branch '" \o src \o "' -> '" \o dst \o "'")]
    ELSE LET i == info_dict(dst, RevStr("HEAD"), r1)
             o == BranchCopy(src, dst, msg, revision, r2)
         IN  [procs |-> i.procs \o <<o.proc>>, raised |-> o.raised]

branch(src, dst, msg, revision, r1, r2) ==
    IF NotMsg(msg)
    THEN [procs |-> <<>>,
          raised |-> SvnNoMessageError("branch '" \o src \o "' -> '" \o dst \o "'")]
    ELSE LET i == info_dict(dst, RevStr("HEAD"), r1)
         IN  IF i.raised = NoExc
             THEN [procs |-> i.procs,
                   raised |-> SvnBranchDestinationAlreadyExistError(dst)]
             ELSE IF i.raised.type # "OsxSystemExecError"
             THEN [procs |-> i.procs, raised |-> i.raised]
             ELSE LET o == BranchCopy(src, dst, msg, revision, r2)
                  IN  [procs |-> i.procs \o <<o.proc>>, raised |-> o.raised]

RollbackMerge(revision_or_range, path, r) ==
    svn_exec_sub_command(
        "merge " \o " " \o stringing_revision_or_range_option(revision_or_range)
        \o " " \o path \o " " \o path, r)

\* rollback that keeps the order of the bounds it was given
RollbackRangeNoSwap(start_revision, end_revision) ==
    Range(RevInt(start_revision), RevInt(end_revision - 1))

\* the range rollback merges once both bounds are integers
RollbackRange(start_revision, end_revision) ==
    IF start_revision < end_revision
    THEN Range(RevInt(end_revision), RevInt(start_revision - 1))
    ELSE Range(RevInt(start_revision), RevInt(end_revision - 1))

rollback(revision_or_range, path, r1, r2, r3) ==
    IF revision_or_range.range
    THEN LET s == get_revision_number(path, revision_or_range.a, r1)
         IN  IF s.raised # NoExc
             THEN [procs |-> s.procs, raised |-> s.raised]
             ELSE LET e == get_revision_number(path, revision_or_range.b, r2)
                  IN  IF e.raised # NoExc
                      THEN [procs |-> s.procs \o e.procs, raised |-> e.raised]
                      ELSE LET o == RollbackMerge(RollbackRange(s.value, e.value),
                                                  path, r3)
                           IN  [procs |-> s.procs \o e.procs \o <<o.proc>>,
                                raised |-> o.raised]
    ELSE LET n == get_revision_number(path, revision_or_range.a, r1)
         IN  IF n.raised # NoExc
             THEN [procs |-> n.procs, raised |-> n.raised]
             ELSE LET o == RollbackMerge(
                             Single(RevStr("-" \o ToString(n.value))), path, r3)
                  IN  [procs |-> n.procs \o <<o.proc>>, raised |-> o.raised]

\* the externals file itself is written before the command and removed after
propset_externals(f, dir, external_pairs, tmp, r) ==
    LET written == [f EXCEPT ![tmp] = "file"]
        o == svn_exec_sub_command(
                "propset svn:externals -F " \o tmp \o " " \o dir, r)
    IN  IF o.raised # NoExc
        THEN [procs |-> <<o.proc>>, raised |-> o.raised, fs |-> written]
        ELSE [procs |-> <<o.proc>>, raised |-> NoExc,
              fs |-> [written EXCEPT ![tmp] = "absent"]]

is_valid_svn_path(path, r) ==
    LET o == svn_exec_sub_command_output(
                "info " \o path
                \o (IF is_url(path) THEN " " \o svn_fields.str_user_pass_option
                    ELSE ""), r)
    IN  [procs |-> <<o.proc>>, raised |-> NoExc, value |-> o.raised = NoExc]

\* the XML svn log prints: a sequence of log entries, each with or without
\* its list of changed paths
LogPath(text, prop_mods, text_mods, kind, action) ==
    [text |-> text, prop_mods |-> prop_mods, text_mods |-> text_mods,
     kind |-> kind, action |-> action]

LogEntry(revision, author, msg, has_paths, paths) ==
    [revision |-> revision, author |-> author, msg |-> msg,
     has_paths |-> has_paths, paths |-> paths]

LogDocs ==
    LET e5 == LogEntry(5, "alice", "fix", FALSE, <<>>)
        e6 == LogEntry(6, "bob", "add b", TRUE,
                       <<LogPath("/a.txt", "false", "true", "file", "M"),
                         LogPath("/b", "true", "false", "dir", "A")>>)
    IN  {<<>>, <<e5>>, <<e5, e6>>, <<e6, e5>>}

RECURSIVE PathsToXml(_)
PathsToXml(paths) ==
    IF paths = <<>> THEN ""
    ELSE "<path prop-mods=\"" \o Head(paths).prop_mods \o "\" text-mods=\""
         \o Head(paths).text_mods \o "\" kind=\"" \o Head(paths).kind
         \o "\" action=\"" \o Head(paths).action \o "\">" \o Head(paths).text
         \o "</path>" \o PathsToXml(Tail(paths))

RECURSIVE EntriesToXml(_)
EntriesToXml(entries) ==
    IF entries = <<>> THEN ""
    ELSE LET e == Head(entries)
         IN  "<logentry revision=\"" \o ToString(e.revision) \o "\"><author>"
             \o e.author \o "</author><date>2015-01-01T00:00:00.000000Z</date>"
             \o (IF e.has_paths
                 THEN "<paths>" \o PathsToXml(e.paths) \o "</paths>" ELSE "")
             \o "<msg>" \o e.msg \o "</msg></logentry>"
             \o EntriesToXml(Tail(entries))

LogToXml(entries) == "<log>" \o EntriesToXml(entries) \o "</log>"

log_fromstring(text) == CHOOSE entries \in LogDocs : LogToXml(entries) = text

\* the dict log builds from a logentry node; '#revision' stays the text of
\* the attribute
LogRecord(e) ==
    ("#revision" :> ToString(e.revision)) @@ ("author" :> e.author)
    @@ ("date" :> "2015-01-01T00:00:00.000000Z") @@ ("msg" :> e.msg)
    @@ (IF e.has_paths
        THEN "paths" :> [i \in 1..Len(e.paths) |->
                            [text |-> e.paths[i].text,
                             prop_mods |-> e.paths[i].prop_mods = "true",
                             text_mods |-> e.paths[i].text_mods = "true",
                             kind |-> e.paths[i].kind,
                             action |-> e.paths[i].action]]
        ELSE <<>>)

\* limit and search_pattern are PyNone or the text of the argument
log(path, revision_or_range, limit, show_detail_changes, search_pattern, r) ==
    LET o == svn_exec_sub_command_output(
                "log " \o path \o " --xml"
                \o " " \o stringing_revision_or_range_option(revision_or_range)
                \o (IF limit # PyNone THEN " -l " \o limit ELSE "")
                \o (IF show_detail_changes THEN " -v" ELSE "")
                \o (IF search_pattern # PyNone
                    THEN " --search " \o search_pattern ELSE "")
                \o (IF is_url(path) THEN " " \o svn_fields.str_user_pass_option
                    ELSE ""), r)
    IN  IF o.raised # NoExc
        THEN [procs |-> <<o.proc>>, raised |-> o.raised, value |-> <<>>]
        ELSE LET entries == log_fromstring(o.ret)
             IN  [procs |-> <<o.proc>>, raised |-> NoExc,
                  value |-> [i \in 1..Len(entries) |-> LogRecord(entries[i])]]

\* a checkout that exits with code 0 has made the path a working copy
checkout(f, url, path, revision, r) ==
    LET o == svn_exec_sub_command(
                "checkout " \o url \o " " \o path
                \o " " \o stringing_revision_option(revision)
                \o " " \o svn_fields.str_user_pass_option, r)
    IN  [procs |-> <<o.proc>>, raised |-> o.raised,
         fs |-> IF o.raised = NoExc /\ ~is_path_exist(f, path)
                THEN [f EXCEPT ![path] = "dir"] ELSE f]

update(f, path_list, revision, r) ==
    LET o == svn_exec_sub_command(
                "update " \o path_list
                \o " " \o stringing_revision_option(revision)
                \o " " \o svn_fields.str_user_pass_option, r)
    IN  [procs |-> <<o.proc>>, raised |-> o.raised, fs |-> f]

update_or_checkout(f, url, path, revision, r) ==
    IF is_path_exist(f, path)
    THEN update(f, path, revision, r)
    ELSE checkout(f, url, path, revision, r)

add(path_list, r) ==
    LET o == svn_exec_sub_command("add " \o path_list, r)
    IN  [procs |-> <<o.proc>>, raised |-> o.raised]

resolve(path_list, accept_arg, recursive, quiet, r) ==
    LET o == svn_exec_sub_command(
                "resolve " \o path_list
                \o (IF recursive THEN " -R" ELSE "")
                \o (IF quiet THEN " -q" ELSE "")
                \o " --accept " \o accept_arg, r)
    IN  [procs |-> <<o.proc>>, raised |-> o.raised]

\* db_ok: wc.db can be opened and has the table work_queue
clear_work_queue(path, db_ok) ==
    IF db_ok THEN NoExc
    ELSE BuiltinError("sqlite3.OperationalError", "no such table: work_queue")

cleanup(path_list, r) ==
    LET o == svn_exec_sub_command("cleanup " \o path_list, r)
    IN  [procs |-> <<o.proc>>, raised |-> o.raised]

\* recursive is the text of the argument, or PyNone
revert(path_list, recursive, r) ==
    LET o == svn_exec_sub_command(
                "revert " \o path_list
                \o (IF recursive # PyNone THEN " -R" ELSE ""), r)
    IN  [procs |-> <<o.proc>>, raised |-> o.raised]

\* clear_all that reverts whether or not the cleanup failed
clear_all_best_effort(path, db_ok, r1, r2) ==
    LET q == clear_work_queue(path, db_ok)
    IN  IF q # NoExc
        THEN [procs |-> <<>>, raised |-> q]
        ELSE LET c == cleanup(path, r1)
                 v == revert(path, "True", r2)
             IN  [procs |-> c.procs \o v.procs, raised |-> v.raised]

clear_all(path, db_ok, r1, r2) ==
    LET q == clear_work_queue(path, db_ok)
    IN  IF q # NoExc
        THEN [procs |-> <<>>, raised |-> q]
        ELSE LET c == cleanup(path, r1)
             IN  IF c.raised # NoExc
                 THEN c
                 ELSE LET v == revert(path, "True", r2)
                      IN  [procs |-> c.procs \o v.procs, raised |-> v.raised]

\* line[0] == '?' where line is a line of what check_output returned: a str
\* on Python 2; on Python 3 line is bytes, line[0] an int, and an int never
\* equals a str
FirstIsQuestionMark(line) ==
    IF PY3 THEN FALSE ELSE SubSeq(line, 1, 1) = "?"

\* the loop of remove_not_versioned over the lines left; removed lists the
\* arguments of the remove_path calls made; rs holds one response per line
RECURSIVE RemoveLines(_, _, _)
RemoveLines(f, lines, rs) ==
    IF lines = <<>>
    THEN [procs |-> <<>>, raised |-> NoExc, fs |-> f, removed |-> <<>>]
    ELSE LET line == Head(lines)
         IN  IF Len(line) > 0 /\ FirstIsQuestionMark(line)
             THEN LET rm == remove_path("svn", f, SliceFrom(line, 8), TRUE,
                                        Head(rs))
                  IN  IF rm.raised # NoExc
                      THEN [procs |-> rm.procs, raised |-> rm.raised,
                            fs |-> rm.fs, removed |-> <<SliceFrom(line, 8)>>]
                      ELSE LET rest == RemoveLines(rm.fs, Tail(lines), Tail(rs))
                           IN  [procs |-> rm.procs \o rest.procs,
                                raised |-> rest.raised, fs |-> rest.fs,
                                removed |-> <<SliceFrom(line, 8)>>
                                            \o rest.removed]
             ELSE RemoveLines(f, Tail(lines), Tail(rs))

remove_not_versioned(f, path, r, rs) ==
    LET o == svn_exec_sub_command_output("status " \o path, r)
    IN  IF o.raised # NoExc
        THEN [procs |-> <<o.proc>>, raised |-> o.raised, fs |-> f,
              removed |-> <<>>]
        ELSE LET l == RemoveLines(f, splitlines(o.ret), rs)
             IN  [l EXCEPT !.procs = <<o.proc>> \o l.procs]

unlock(file_path, r) ==
    LET o == svn_exec_sub_command(
                "unlock " \o file_path \o " --force"
                \o " " \o svn_fields.str_user_pass_option, r)
    IN  [procs |-> <<o.proc>>, raised |-> o.raised]

(***************************************************************************)
(* Calls of the Svn object.  A response is drawn only for a process the    *)
(* call can start; Unused stands in for the others.                        *)
(***************************************************************************)
Unused == [code |-> 0, out |-> ""]

Needed(cond, responses) == IF cond THEN responses ELSE {Unused}

SvnRetCodes == {0, 1}

SvnResponses(outs) == [code : SvnRetCodes, out : outs]

InfoResponses(docs) ==
    {[code |-> 0, out |-> ToXml(d)] : d \in docs}
    \cup {[code |-> 1, out |-> "svn: E200009: Could not display info"]}

Msgs == {"", PyNone, "fix"}

SvnPaths == {"wc/a.txt", "svn://host/repo/a.txt"}

FinishSvn(c, o) ==
    /\ Finish(c, o.procs, o.raised, PyNone)
    /\ UNCHANGED <<platform, files, fs, cwd, redirect_output_to_log,
                         svn_fields>>

SvnInit ==
    \E user_pass \in {NoUserPass, UserPass("alice", "secret")},
       interactive \in BOOLEAN :
        /\ IS_OS_WIN32
        /\ svn_fields' =
              [base_command |-> "svn",
               str_user_pass_option |-> stringing_user_pass_option(user_pass),
               str_interactive_option |->
                   IF interactive THEN "" ELSE "--non-interactive"]
        /\ redirect_output_to_log' = [redirect_output_to_log EXCEPT !["svn"] = FALSE]
        /\ Finish([name |-> "Svn", user_pass |-> user_pass,
                   interactive |-> interactive], <<>>, NoExc, PyNone)
        /\ UNCHANGED <<platform, files, fs, cwd>>

SvnSetRedirectOutputToLog ==
    \E b \in BOOLEAN : set_redirect_output_to_log("svn", b)

SvnCommit ==
    \E msg \in Msgs, path_list \in {"wc"}, include_external \in BOOLEAN,
       r \in SvnResponses({""}) :
        /\ IS_OS_WIN32
        /\ FinishSvn([name |-> "commit", msg |-> msg, path_list |-> path_list,
                      include_external |-> include_external],
                     commit(msg, path_list, include_external, r))

LockOutputs ==
    {"'a.txt' locked by user 'alice'.",
     "svn: warning: W160035: Path '/a.txt' is already locked by user 'bob'"}

SvnLock ==
    \E file_path \in SvnPaths, msg \in Msgs :
      \E r1 \in Needed(~NotMsg(msg), SvnResponses(LockOutputs)) :
        \E r2 \in Needed(~NotMsg(msg) /\ r1.code = 0, InfoResponses(LockInfoDocs)) :
            /\ IS_OS_WIN32
            /\ FinishSvn([name |-> "lock", file_path |-> file_path, msg |-> msg,
                          info |-> r2],
                         lock(file_path, msg, r1, r2))

SvnMove ==
    \E src \in {"wc/a.txt"}, dst \in {"wc/b.txt"}, msg \in Msgs,
       r \in SvnResponses({""}) :
        /\ IS_OS_WIN32
        /\ FinishSvn([name |-> "move", src |-> src, dst |-> dst, msg |-> msg],
                     move(src, dst, msg, r))

BranchDsts == {"svn://host/repo/branches/b1", "wc/b1"}

SvnBranch ==
    \E src \in {"svn://host/repo/trunk"}, dst \in BranchDsts, msg \in Msgs,
       revision \in {RevStr("HEAD"), RevInt(5)} :
      \E r1 \in Needed(~NotMsg(msg), InfoResponses({InfoDoc(5, FALSE, NoLock)})) :
        \E r2 \in Needed(~NotMsg(msg) /\ r1.code # 0, SvnResponses({""})) :
            /\ IS_OS_WIN32
            /\ FinishSvn([name |-> "branch", src |-> src, dst |-> dst,
                          msg |-> msg, revision |-> revision],
                         branch(src, dst, msg, revision, r1, r2))

IntRevisions == {RevInt(n) : n \in 1..MaxRev}

SymbolicRevisions == {RevStr("HEAD"), RevStr("PREV")}

Revisions == IntRevisions \cup SymbolicRevisions

RevisionInfoResponses == InfoResponses(RevisionInfoDocs)

SvnRollback ==
    \E revision_or_range \in {Range(a, b) : a, b \in Revisions}
                             \cup {Single(a) : a \in Revisions},
       path \in {"wc"} :
      \E r1 \in Needed(~revision_or_range.a.isint, RevisionInfoResponses) :
        \E r2 \in Needed(revision_or_range.range /\ ~revision_or_range.b.isint
                         /\ r1.code = 0, RevisionInfoResponses) :
          \E r3 \in Needed(r1.code = 0 /\ r2.code = 0, SvnResponses({""})) :
            /\ IS_OS_WIN32
            /\ FinishSvn([name |-> "rollback",
                          revision_or_range |-> revision_or_range, path |-> path,
                          info1 |-> r1, info2 |-> r2],
                         rollback(revision_or_range, path, r1, r2, r3))

SvnPropsetExternals ==
    \E dir \in {"wc"}, external_pairs \in {<<<<"lib", "svn://host/lib/trunk">>>>},
       tmp \in mktemp(fs), r \in SvnResponses({""}) :
        LET o == propset_externals(fs, dir, external_pairs, tmp, r)
        IN  /\ IS_OS_WIN32
            /\ Finish([name |-> "propset_externals", dir |-> dir,
                       external_pairs |-> external_pairs, tmp |-> tmp],
                      o.procs, o.raised, PyNone)
            /\ fs' = o.fs
            /\ UNCHANGED <<platform, files, cwd, redirect_output_to_log,
                         svn_fields>>

SvnIsValidSvnPath ==
    \E path \in SvnPaths, r \in SvnResponses({""}) :
        LET o == is_valid_svn_path(path, r)
        IN  /\ IS_OS_WIN32
            /\ Finish([name |-> "is_valid_svn_path", path |-> path],
                      o.procs, o.raised, o.value)
            /\ UNCHANGED <<platform, files, fs, cwd, redirect_output_to_log,
                         svn_fields>>

SvnInfoDict ==
    \E path \in SvnPaths, revision \in {RevStr("HEAD"), RevInt(5)},
       r \in InfoResponses(LockInfoDocs) :
        LET o == info_dict(path, revision, r)
        IN  /\ IS_OS_WIN32
            /\ Finish([name |-> "info_dict", path |-> path,
                       revision |-> revision],
                      o.procs, o.raised, o.value)
            /\ UNCHANGED <<platform, files, fs, cwd, redirect_output_to_log,
                         svn_fields>>

LogResponses ==
    {[code |-> 0, out |-> LogToXml(entries)] : entries \in LogDocs}
    \cup {[code |-> 1, out |-> "svn: E160013: File not found"]}

SvnLog ==
    \E path \in SvnPaths,
       revision_or_range \in {Range(RevStr("HEAD"), RevInt(1)), Single(RevInt(5))},
       limit \in {PyNone, "2"}, show_detail_changes \in BOOLEAN,
       search_pattern \in {PyNone}, r \in LogResponses :
        LET o == log(path, revision_or_range, limit, show_detail_changes,
                     search_pattern, r)
        IN  /\ IS_OS_WIN32
            /\ Finish([name |-> "log", path |-> path,
                       revision_or_range |-> revision_or_range,
                       limit |-> limit,
                       show_detail_changes |-> show_detail_changes,
                       search_pattern |-> search_pattern],
                      o.procs, o.raised, o.value)
            /\ UNCHANGED <<platform, files, fs, cwd, redirect_output_to_log,
                         svn_fields>>

SvnUpdateOrCheckout ==
    \E url \in {"svn://host/repo/trunk"}, path \in {"wc", "out"},
       revision \in {RevStr("HEAD"), RevInt(5)}, r \in SvnResponses({""}) :
        LET o == update_or_checkout(fs, url, path, revision, r)
        IN  /\ IS_OS_WIN32
            /\ Finish([name |-> "update_or_checkout", url |-> url,
                       path |-> path, revision |-> revision, fs |-> fs],
                      o.procs, o.raised, PyNone)
            /\ fs' = o.fs
            /\ UNCHANGED <<platform, files, cwd, redirect_output_to_log,
                         svn_fields>>

SvnAdd ==
    \E path_list \in {"wc/b.txt"}, r \in SvnResponses({""}) :
        /\ IS_OS_WIN32
        /\ FinishSvn([name |-> "add", path_list |-> path_list],
                     add(path_list, r))

SvnResolve ==
    \E path_list \in {"wc"}, accept_arg \in {"working", "theirs-full"},
       recursive \in BOOLEAN, quiet \in BOOLEAN, r \in SvnResponses({""}) :
        /\ IS_OS_WIN32
        /\ FinishSvn([name |-> "resolve", path_list |-> path_list,
                      accept_arg |-> accept_arg, recursive |-> recursive,
                      quiet |-> quiet],
                     resolve(path_list, accept_arg, recursive, quiet, r))

SvnClearAll ==
    \E path \in {"wc"}, db_ok \in BOOLEAN :
      \E r1 \in Needed(db_ok, SvnResponses({""})) :
        \E r2 \in Needed(db_ok /\ r1.code = 0, SvnResponses({""})) :
            /\ IS_OS_WIN32
            /\ FinishSvn([name |-> "clear_all", path |-> path,
                          db_ok |-> db_ok],
                         clear_all(path, db_ok, r1, r2))

StatusOutputs ==
    {"",
     "M       wc/b.txt\n?       wc/a.txt\n",
     "?       out\r\n\r\n?       wc/a.txt\r\nA       wc/c.txt\r\n"}

SvnRemoveNotVersioned ==
    \E path \in {"."} :
      \E r \in SvnResponses(StatusOutputs) :
        \E rs \in [1..4 -> Needed(r.code = 0 /\ r.out # "" /\ ~PY3,
                                  SvnResponses({""}))] :
            LET o == remove_not_versioned(fs, path, r, rs)
            IN  /\ IS_OS_WIN32
                /\ Finish([name |-> "remove_not_versioned", path |-> path,
                           fs |-> fs],
                          o.procs, o.raised, o.removed)
                /\ fs' = o.fs
                /\ UNCHANGED <<platform, files, cwd, redirect_output_to_log,
                         svn_fields>>

SvnUnlock ==
    \E file_path \in SvnPaths, r \in SvnResponses({""}) :
        /\ IS_OS_WIN32
        /\ FinishSvn([name |-> "unlock", file_path |-> file_path],
                     unlock(file_path, r))

\* rollback for a few revisions, next to the other operations of the object
SvnRollbackFew ==
    \E revision_or_range \in {Single(RevStr("HEAD")),
                              Range(RevStr("PREV"), RevStr("HEAD")),
                              Range(RevInt(5), RevInt(10))},
       path \in {"wc"} :
      \E r1 \in Needed(~revision_or_range.a.isint,
                       InfoResponses({InfoDoc(9, TRUE, NoLock)})) :
        \E r2 \in Needed(revision_or_range.range /\ ~revision_or_range.b.isint
                         /\ r1.code = 0,
                         InfoResponses({InfoDoc(10, TRUE, NoLock)})) :
          \E r3 \in Needed(r1.code = 0 /\ r2.code = 0, SvnResponses({""})) :
            /\ IS_OS_WIN32
            /\ FinishSvn([name |-> "rollback",
                          revision_or_range |-> revision_or_range, path |-> path,
                          info1 |-> r1, info2 |-> r2],
                         rollback(revision_or_range, path, r1, r2, r3))

(***************************************************************************)
(* Git.                                                                    *)
(***************************************************************************)
git_base_command == "git"

git_exec_sub_command(sub_command, r) ==
    exec_command("git", git_base_command \o " " \o sub_command, r)

\* the statements of a block, each a git sub command: they run in order and
\* the first that raises ends the block
RECURSIVE git_run_block(_, _)
git_run_block(sub_commands, rs) ==
    IF sub_commands = <<>>
    THEN [procs |-> <<>>, raised |-> NoExc]
    ELSE LET o == git_exec_sub_command(Head(sub_commands), Head(rs))
         IN  IF o.raised # NoExc
             THEN [procs |-> <<o.proc>>, raised |-> o.raised]
             ELSE LET rest == git_run_block(Tail(sub_commands), Tail(rs))
                  IN  [procs |-> <<o.proc>> \o rest.procs, raised |-> rest.raised]

\* a file of the .git directory as get_current_branch finds it: absent,
\* present with a first line that cannot be read (error is str(e) of what
\* readline raises), or present with a text
MissingFile == [exists |-> FALSE, readable |-> FALSE, text |-> "", error |-> ""]

UnreadableFile(error) ==
    [exists |-> TRUE, readable |-> FALSE, text |-> "", error |-> error]

TextFile(text) == [exists |-> TRUE, readable |-> TRUE, text |-> text, error |-> ""]

\* what open(path) raises for a file that does not exist
OpenError(path) ==
    BuiltinError(IF PY3 THEN "FileNotFoundError" ELSE "IOError",
                 "[Errno 2] No such file or directory: '" \o path \o "'")

git_meta_data_base_dir == ".git"

\* head is the file at head_file_path, ref the file at refs_heads_path
get_current_branch(path, head, ref) ==
    LET head_file_path == join(join(path, git_meta_data_base_dir), "HEAD")
    IN  IF ~head.exists
        THEN [raised |-> OpenError(head_file_path), value |-> PyNone]
        ELSE IF ~head.readable
        THEN [raised |-> GitParseMetaDataError(
                            "Can't parse branch name from head file "
                            \o head_file_path \o ": " \o head.error),
              value |-> PyNone]
        ELSE LET line == rstrip(readline(head.text), "\n")
                 parts == split(line, ": ")
             IN  IF Len(parts) < 2
                 THEN [raised |-> GitParseMetaDataError(
                                    "Can't parse branch name from head file "
                                    \o head_file_path
                                    \o ": list index out of range"),
                       value |-> PyNone]
                 ELSE LET refs_heads == parts[2]
                          branch_name == SliceFrom(refs_heads, Len("refs/heads/"))
                          refs_heads_path ==
                              normpath(join(join(path, git_meta_data_base_dir),
                                            refs_heads))
                      IN  IF ~ref.exists
                          THEN [raised |-> OpenError(refs_heads_path),
                                value |-> PyNone]
                          ELSE IF ~ref.readable
                          THEN [raised |-> GitParseMetaDataError(
                                            "Can't parse revision from "
                                            \o refs_heads_path \o ": "
                                            \o ref.error),
                                value |-> PyNone]
                          ELSE [raised |-> NoExc,
                                value |-> <<branch_name,
                                            rstrip(readline(ref.text), "\n")>>]

clone(url, path, r) == git_exec_sub_command("clone " \o url \o " " \o path, r)

GetCleanBlock(branch_name, revision) ==
    <<"reset --hard", "fetch", "checkout " \o branch_name,
      "merge origin/" \o branch_name>>
    \o (IF revision # PyNone THEN <<"reset " \o revision \o " --hard">> ELSE <<>>)

\* os.chdir(target) in the working directory d: the new working directory
chdir(d, target) == IF isabs(target) THEN normpath(target) ELSE join(d, target)

\* the with block of get_clean whose ChangeDirectory does not change back
GetCleanIn_no_exit(f, d, path, branch_name, revision, rs) ==
    IF ~is_dir(f, path)
    THEN [procs |-> <<>>, raised |-> BuiltinError("OSError", path),
          fs |-> f, cwd |-> d, entered |-> FALSE, inside |-> d]
    ELSE LET inside == chdir(d, path)
             b == git_run_block(GetCleanBlock(branch_name, revision), rs)
         IN  [procs |-> b.procs, raised |-> b.raised, fs |-> f,
              cwd |-> inside, entered |-> TRUE, inside |-> inside]

\* the with block of get_clean: ChangeDirectory keeps the working directory
\* of its construction, __enter__ changes to the target (os.chdir raises for
\* a target that is no directory, and the block is not entered), __exit__
\* changes back however the block ended
\* inside is the working directory in which the block ran
GetCleanIn(f, d, path, branch_name, revision, rs) ==
    LET old_cwd == d
    IN  IF ~is_dir(f, path)
        THEN [procs |-> <<>>, raised |-> BuiltinError("OSError", path),
              fs |-> f, cwd |-> d, entered |-> FALSE, inside |-> d]
        ELSE LET inside == chdir(d, path)
                 b == git_run_block(GetCleanBlock(branch_name, revision), rs)
             IN  [procs |-> b.procs, raised |-> b.raised, fs |-> f,
                  cwd |-> chdir(inside, old_cwd), entered |-> TRUE,
                  inside |-> inside]

\* get_clean that clones whether or not the path exists
get_clean_always_clone(f, d, url, path, branch_name, revision, rs) ==
    LET c == clone(url, path, Head(rs))
    IN  IF c.raised # NoExc
        THEN [procs |-> <<c.proc>>, raised |-> c.raised, fs |-> f,
              cwd |-> d, entered |-> FALSE, inside |-> d]
        ELSE LET w == GetCleanIn([f EXCEPT ![path] = "dir"], d, path,
                                 branch_name, revision, Tail(rs))
             IN  [w EXCEPT !.procs = <<c.proc>> \o w.procs]

get_clean(f, d, url, path, branch_name, revision, rs) ==
    IF ~is_path_exist(f, path)
    THEN LET c == clone(url, path, Head(rs))
         IN  IF c.raised # NoExc
             THEN [procs |-> <<c.proc>>, raised |-> c.raised, fs |-> f,
                   cwd |-> d, entered |-> FALSE, inside |-> d]
             ELSE LET w == GetCleanIn([f EXCEPT ![path] = "dir"], d, path,
                                      branch_name, revision, Tail(rs))
                  IN  [w EXCEPT !.procs = <<c.proc>> \o w.procs]
    ELSE GetCleanIn(f, d, path, branch_name, revision, Tail(rs))

GitRetCodes == {0, 1, 128}

GitResponses == [code : GitRetCodes, out : {""}]

GitSetRedirectOutputToLog ==
    \E b \in BOOLEAN : set_redirect_output_to_log("git", b)

HeadFiles ==
    {MissingFile, UnreadableFile("Input/output error"),
     TextFile("ref: refs/heads/master\n"), TextFile("ref: refs/heads/dev"),
     TextFile("9fceb02d0ae598e95dc970b74767f19372d61af8\n"), TextFile("")}

RefFiles ==
    {MissingFile, UnreadableFile("Input/output error"),
     TextFile("9fceb02d0ae598e95dc970b74767f19372d61af8\n"), TextFile("")}

\* the first line of HEAD names a ref, so that the ref file is opened
NamesRef(head) ==
    /\ head.exists
    /\ head.readable
    /\ Len(split(rstrip(readline(head.text), "\n"), ": ")) >= 2

\* the ref file is drawn only when HEAD names a ref
GitGetCurrentBranch ==
    \E path \in {"repo", "wc"}, head \in HeadFiles :
      \E ref \in IF NamesRef(head) THEN RefFiles ELSE {MissingFile} :
        LET o == get_current_branch(path, head, ref)
        IN  /\ IS_OS_WIN32
            /\ Finish([name |-> "get_current_branch", path |-> path,
                       head |-> head, ref |-> ref],
                      <<>>, o.raised, o.value)
            /\ UNCHANGED <<platform, files, fs, cwd, redirect_output_to_log,
                         svn_fields>>

GitGetClean ==
    \E url \in {"https://host/repo.git"}, path \in {"repo"},
       branch_name \in {"master", "dev"}, revision \in {PyNone, "a1b2c3d"},
       rs \in [1..6 -> GitResponses] :
        LET o == get_clean(fs, cwd, url, path, branch_name, revision, rs)
        IN  /\ IS_OS_WIN32
            /\ Finish([name |-> "get_clean", url |-> url, path |-> path,
                       branch_name |-> branch_name, revision |-> revision,
                       fs |-> fs, cwd |-> cwd, entered |-> o.entered,
                       inside |-> o.inside],
                      o.procs, o.raised, PyNone)
            /\ fs' = o.fs
            /\ cwd' = o.cwd
            /\ UNCHANGED <<platform, files, redirect_output_to_log, svn_fields>>

(***************************************************************************)
(* Zip.  files maps a path, in the spelling normpath gives it, to its kind *)
(* and content: a directory, a file with its bytes, or a zip archive with  *)
(* its entries.  Windows takes '/' and '\' alike as separators.            *)
(***************************************************************************)
Dir == [kind |-> "dir", data |-> "", entries |-> <<>>]

File(data) == [kind |-> "file", data |-> data, entries |-> <<>>]

\* a zip archive is a file; entries is what zipfile reads from its bytes
Archive(entries) == [kind |-> "file", data |-> "PK", entries |-> entries]

NoFiles == <<>>

exists(d, path) == normpath(path) \in DOMAIN d

isdir(d, path) == exists(d, path) /\ d[normpath(path)].kind = "dir"

isfile(d, path) == exists(d, path) /\ d[normpath(path)].kind = "file"

\* the position of the last separator of a path, 0 when it has none
LastSep(path) ==
    LET at == {i \in 1..Len(path) : IsSep(SubSeq(path, i, i))}
    IN  IF at = {} THEN 0 ELSE CHOOSE i \in at : \A j \in at : j <= i

RECURSIVE RStripSeps(_)
RStripSeps(s) ==
    IF Len(s) > 0 /\ IsSep(SubSeq(s, Len(s), Len(s)))
    THEN RStripSeps(SubSeq(s, 1, Len(s) - 1))
    ELSE s

RECURSIVE LStripSeps(_)
LStripSeps(s) ==
    IF Len(s) > 0 /\ IsSep(SubSeq(s, 1, 1)) THEN LStripSeps(SliceFrom(s, 1))
    ELSE s

basename(path) == SliceFrom(path, LastSep(path))

dirname(path) ==
    LET head == SliceTo(path, LastSep(path))
    IN  IF RStripSeps(head) = "" THEN head ELSE RStripSeps(head)

\* s.replace(old, new) of Python for a single character old
RECURSIVE replace(_, _, _)
replace(s, old, new) ==
    IF s = "" THEN ""
    ELSE (IF SubSeq(s, 1, 1) = old THEN new ELSE SubSeq(s, 1, 1))
         \o replace(SliceFrom(s, 1), old, new)

\* the path and the directories above it
Ancestors(path) ==
    LET np == normpath(path)
    IN  {np} \cup {SliceTo(np, i - 1) :
                    i \in {j \in 2..Len(np) : SubSeq(np, j, j) = "\\"}}

\* os.makedirs(path): the directory and every missing directory above it
makedirs(d, path) ==
    d @@ [q \in Ancestors(path) \ DOMAIN d |-> Dir]

\* the names a directory can hold, in the order os.listdir gives them
NameOrder == <<"a.txt", "empty", "f.txt", "sub">>

RECURSIVE ListFrom(_, _, _)
ListFrom(d, dir, names) ==
    IF names = <<>> THEN <<>>
    ELSE (IF exists(d, join(dir, Head(names))) THEN <<Head(names)>> ELSE <<>>)
         \o ListFrom(d, dir, Tail(names))

listdir(d, dir) == ListFrom(d, dir, NameOrder)

\* the loop over os.walk(dir_path) in _zip_dir: for each directory walked,
\* top down, its sub directories and then its files, joined to its path
RECURSIVE JoinThose(_, _, _, _)
JoinThose(d, root, names, dirs) ==
    IF names = <<>> THEN <<>>
    ELSE (IF isdir(d, join(root, Head(names))) = dirs
          THEN <<join(root, Head(names))>> ELSE <<>>)
         \o JoinThose(d, root, Tail(names), dirs)

RECURSIVE walk_file_list(_, _)
RECURSIVE WalkEach(_, _)
WalkEach(d, dirs) ==
    IF dirs = <<>> THEN <<>>
    ELSE walk_file_list(d, Head(dirs)) \o WalkEach(d, Tail(dirs))

walk_file_list(d, root) ==
    IF ~isdir(d, root) THEN <<>>
    ELSE LET names == listdir(d, root)
         IN  JoinThose(d, root, names, TRUE) \o JoinThose(d, root, names, FALSE)
             \o WalkEach(d, JoinThose(d, root, names, TRUE))

\* zlib: inflating what deflate made of a text gives the text
deflate(data) == <<"deflated", data>>

inflate(compressed) == compressed[2]

\* ZipFile.write(filename, arcname): the entry it appends.  The name stored
\* is arcname without leading separators, with '/' for '\', and with a
\* trailing '/' for a directory, which has no content
ZipWrite(d, filename, arcname) ==
    LET name == LStripSeps(normpath(arcname))
    IN  IF isdir(d, filename)
        THEN [filename |-> replace(name \o "/", "\\", "/"),
              compressed |-> deflate("")]
        ELSE [filename |-> replace(name, "\\", "/"),
              compressed |-> deflate(d[normpath(filename)].data)]

_zip_file(d, file_path) == <<ZipWrite(d, file_path, basename(file_path))>>

\* _zip_dir that stores every entry under its full path
_zip_dir_full_names(d, dir_path) ==
    LET file_list == walk_file_list(d, dir_path)
    IN  [i \in 1..Len(file_list) |->
            ZipWrite(d, file_list[i], file_list[i])]

_zip_dir(d, dir_path) ==
    LET file_list == walk_file_list(d, dir_path)
    IN  [i \in 1..Len(file_list) |->
            ZipWrite(d, file_list[i], SliceFrom(file_list[i], Len(dir_path)))]

\* the entries of the archive zip writes to zip_file_path
zip(d, source_path) ==
    IF isfile(d, source_path) THEN _zip_file(d, source_path)
    ELSE _zip_dir(d, source_path)

namelist(entries) == [i \in 1..Len(entries) |-> entries[i].filename]

\* the loop of unzip over the names left
RECURSIVE UnzipNames(_, _, _, _)
UnzipNames(d, entries, names, unzip_to_dir) ==
    IF names = <<>> THEN [raised |-> NoExc, files |-> d]
    ELSE LET name == replace(Head(names), "\\", "/")
         IN  IF Len(name) > 0 /\ SubSeq(name, Len(name), Len(name)) = "/"
             THEN LET ext_dir == join(unzip_to_dir, name)
                  IN  UnzipNames(IF ~exists(d, ext_dir) THEN makedirs(d, ext_dir)
                                 ELSE d,
                                 entries, Tail(names), unzip_to_dir)
             ELSE LET ext_filename == join(unzip_to_dir, name)
                      ext_dir == dirname(ext_filename)
                      made == IF ~exists(d, ext_dir) THEN makedirs(d, ext_dir)
                              ELSE d
                      found == {i \in 1..Len(entries) : entries[i].filename = name}
                  IN  IF found = {}
                      THEN [raised |-> BuiltinError("KeyError",
                                "There is no item named '" \o name
                                \o "' in the archive"),
                            files |-> [q \in DOMAIN made \cup {normpath(ext_filename)}
                                        |-> IF q = normpath(ext_filename)
                                            THEN File("") ELSE made[q]]]
                      ELSE LET e == entries[CHOOSE i \in found : TRUE]
                           IN  UnzipNames(
                                  [q \in DOMAIN made \cup {normpath(ext_filename)}
                                    |-> IF q = normpath(ext_filename)
                                        THEN File(inflate(e.compressed))
                                        ELSE made[q]],
                                  entries, Tail(names), unzip_to_dir)

unzip(d, zip_file_path, unzip_to_dir) ==
    LET made == IF ~exists(d, unzip_to_dir) THEN makedirs(d, unzip_to_dir)
                ELSE d
    IN  IF ~isfile(made, zip_file_path)
        THEN [raised |-> OpenError(zip_file_path), files |-> made]
        ELSE LET entries == made[normpath(zip_file_path)].entries
             IN  UnzipNames(made, entries, namelist(entries), unzip_to_dir)

\* the directory trees that are zipped: under the root a file a.txt, an
\* empty directory, and a chain of directories sub, each with or without a
\* file f.txt
RECURSIVE Chain(_)
Chain(k) == IF k = 1 THEN "sub" ELSE Chain(k - 1) \o "\\sub"

TreePaths ==
    {"a.txt", "empty"} \cup {Chain(k) : k \in 1..MaxDepth}
    \cup {Chain(k) \o "\\f.txt" : k \in 1..MaxDepth}

IsTree(paths) ==
    \A k \in 1..MaxDepth :
        /\ (Chain(k) \o "\\f.txt") \in paths => Chain(k) \in paths
        /\ (k > 1 /\ Chain(k) \in paths) => Chain(k - 1) \in paths

TreeAt(root, paths, a_data) ==
    [q \in {root} \cup {root \o "\\" \o p : p \in paths} |->
        IF q = root \o "\\a.txt" THEN File(a_data)
        ELSE IF basename(q) = "f.txt" THEN File("bytes of " \o q \o "\r\n")
        ELSE Dir]

InitialTrees ==
    {TreeAt("tree", paths, a_data) :
        paths \in {ps \in SUBSET TreePaths : IsTree(ps)},
        a_data \in {"", "AB"}}

\* no path lies below the directory
IsEmptyDir(d, dir) ==
    \A q \in DOMAIN d : ~StartsWith(q, normpath(dir) \o "\\")

ZipCall ==
    \E source_path \in {"tree", "tree\\", "tree/", "tree\\a.txt"},
       zip_file_path \in {"t.zip"} :
        /\ IS_OS_WIN32
        /\ Finish([name |-> "zip", source_path |-> source_path,
                   zip_file_path |-> zip_file_path], <<>>, NoExc, PyNone)
        /\ files' = [q \in DOMAIN files \cup {normpath(zip_file_path)} |->
                        IF q = normpath(zip_file_path)
                        THEN Archive(zip(files, source_path))
                        ELSE files[q]]
        /\ UNCHANGED <<platform, fs, cwd, redirect_output_to_log, svn_fields>>

UnzipCall ==
    \E zip_file_path \in {"t.zip"}, unzip_to_dir \in {"out", "out\\"} :
        LET o == unzip(files, zip_file_path, unzip_to_dir)
        IN  /\ IS_OS_WIN32
            /\ Finish([name |-> "unzip", zip_file_path |-> zip_file_path,
                       unzip_to_dir |-> unzip_to_dir,
                       was_empty |-> IsEmptyDir(files, unzip_to_dir)],
                      <<>>, o.raised, PyNone)
            /\ files' = o.files
            /\ UNCHANGED <<platform, fs, cwd, redirect_output_to_log, svn_fields>>

(***************************************************************************)
(* Initial states and specifications.  The module binds Osx, and with it   *)
(* the Svn and Git wrappers, on Win32 only; the class methods of _BaseOsx  *)
(* are defined for either platform.                                        *)
(***************************************************************************)
InitialFs ==
    {f \in [AllPaths -> {"absent", "dir", "file", "other"}] :
        /\ \A t \in TempNames : f[t] = "absent"
        /\ f["wc"] \in {"absent", "dir"}
        /\ f["wc/a.txt"] \in {"absent", "file"}
        /\ f["wc"] = "absent" => f["wc/a.txt"] = "absent"
        /\ f["repo"] = "absent"}

DefaultFs ==
    [p \in AllPaths |-> CASE p = "wc" -> "dir"
                          [] p = "wc/a.txt" -> "file"
                          [] OTHER -> "absent"]

InitObjects ==
    /\ cwd = "C:\\work"
    /\ redirect_output_to_log = [o \in Owners |-> FALSE]
    /\ svn_fields = [base_command |-> "svn", str_user_pass_option |-> "",
                     str_interactive_option |-> "--non-interactive"]
    /\ call = NoCall
    /\ cmds = <<>>
    /\ raised = NoExc
    /\ ret = PyNone

InitRunner ==
    /\ IS_OS_WIN32 \in BOOLEAN
    /\ PY3 \in BOOLEAN
    /\ fs = DefaultFs
    /\ files = NoFiles
    /\ InitObjects

NextRunner == SystemExec \/ SystemOutput \/ Return

SpecRunner == InitRunner /\ [][NextRunner]_vars

InitOsx ==
    /\ IS_OS_WIN32 = TRUE
    /\ PY3 \in BOOLEAN
    /\ fs \in InitialFs
    /\ files = NoFiles
    /\ InitObjects

NextOsx ==
    OsxSetRedirectOutputToLog \/ RemovePath \/ CopyDir \/ MakeDir \/ Return

SpecOsx == InitOsx /\ [][NextOsx]_vars

InitSvn ==
    /\ IS_OS_WIN32 = TRUE
    /\ PY3 \in BOOLEAN
    /\ fs = DefaultFs
    /\ files = NoFiles
    /\ InitObjects

NextSvn ==
    \/ SvnInit
    \/ SvnSetRedirectOutputToLog
    \/ SvnCommit
    \/ SvnLock
    \/ SvnMove
    \/ SvnBranch
    \/ SvnPropsetExternals
    \/ SvnIsValidSvnPath
    \/ SvnInfoDict
    \/ SvnLog
    \/ SvnUpdateOrCheckout
    \/ SvnAdd
    \/ SvnResolve
    \/ SvnClearAll
    \/ SvnRemoveNotVersioned
    \/ SvnUnlock
    \/ SvnRollbackFew
    \/ Return

SpecSvn == InitSvn /\ [][NextSvn]_vars

\* rollback, whose command does not depend on the Python version
InitRollback ==
    /\ IS_OS_WIN32 = TRUE
    /\ PY3 = FALSE
    /\ fs = DefaultFs
    /\ files = NoFiles
    /\ InitObjects

NextRollback ==
    SvnInit \/ SvnSetRedirectOutputToLog \/ SvnRollback \/ Return

SpecRollback == InitRollback /\ [][NextRollback]_vars

InitGit ==
    /\ IS_OS_WIN32 = TRUE
    /\ PY3 \in BOOLEAN
    /\ fs \in {[DefaultFs EXCEPT !["repo"] = k] : k \in {"absent", "dir", "file"}}
    /\ files = NoFiles
    /\ InitObjects

NextGit ==
    GitSetRedirectOutputToLog \/ GitGetCurrentBranch \/ GitGetClean \/ Return

SpecGit == InitGit /\ [][NextGit]_vars

\* the operations of the default svn object, and get_clean of the default
\* git object, side by side
NextWrappers ==
    \/ SvnSetRedirectOutputToLog
    \/ SvnCommit
    \/ SvnLock
    \/ SvnMove
    \/ SvnBranch
    \/ SvnPropsetExternals
    \/ SvnIsValidSvnPath
    \/ SvnInfoDict
    \/ SvnLog
    \/ SvnUpdateOrCheckout
    \/ SvnAdd
    \/ SvnResolve
    \/ SvnClearAll
    \/ SvnRemoveNotVersioned
    \/ SvnUnlock
    \/ SvnRollbackFew
    \/ GitGetClean
    \/ Return

SpecWrappers == InitSvn /\ [][NextWrappers]_vars

InitZip ==
    /\ IS_OS_WIN32 = TRUE
    /\ PY3 \in BOOLEAN
    /\ fs = DefaultFs
    /\ files \in InitialTrees
    /\ InitObjects

NextZip == ZipCall \/ UnzipCall \/ Return

SpecZip == InitZip /\ [][NextZip]_vars

(***************************************************************************)
(* Claims about the process runner (SpecRunner).                           *)
(***************************************************************************)
RunnerCall == ~Idle /\ call.name \in {"system_exec", "system_output"}

ConsoleMode == call.name = "system_exec" /\ ~call.redirect_output_to_log

\* n >> 8: the integer q with 256 * q <= n < 256 * (q + 1)
ShiftRight8(n) ==
    CHOOSE q \in (-1 - MaxRetCode)..(MaxRetCode + 1) :
        256 * q <= n /\ n < 256 * (q + 1)

Normalized(n) == IF IS_OS_WIN32 THEN n ELSE ShiftRight8(n)

C2_NormalizedCode ==
    (RunnerCall /\ raised.type = "OsxSystemExecError") =>
        raised.code = IF IS_OS_WIN32 THEN cmds[1].code
                      ELSE ShiftRight8(cmds[1].code)

C2_Witness ==
    /\ call.name = "system_output"
    /\ ~IS_OS_WIN32
    /\ cmds[1].code = 257
    /\ raised.type = "OsxSystemExecError"
    /\ raised.code = 1

(***************************************************************************)
(* Claims about the path helper (SpecOsx).                                 *)
(***************************************************************************)
\* C3: remove_path on a path that does not exist starts no process and
\* leaves the file system unchanged; with force it raises nothing, without
\* force it raises OsxPathNotExistError.
C3_RemoveAbsentPath ==
    (call.name = "remove_path" /\ ~is_path_exist(call.fs, call.path)) =>
        /\ cmds = <<>>
        /\ fs = call.fs
        /\ call.force => raised = NoExc
        /\ ~call.force => raised = OsxPathNotExistError(call.path)

C3_Witness ==
    /\ call.name = "remove_path"
    /\ ~is_path_exist(call.fs, call.path)
    /\ ~call.force
    /\ raised.type = "OsxPathNotExistError"

\* C4: after copy_dir with an exclude list, the temporary exclude-list file
\* does not exist, whatever the outcome of the xcopy command.
C4_NoExcludeFileLeft ==
    (call.name = "copy_dir" /\ call.excludes # PyNone) =>
        fs[call.tmp] = "absent"

(***************************************************************************)
(* Claims about the svn wrapper (SpecSvn, SpecRollback).                   *)
(***************************************************************************)
\* C5: propset_externals deletes the temporary externals file it wrote
\* whether or not the propset command succeeded.
C5_NoExternalsFileLeft ==
    call.name = "propset_externals" => fs[call.tmp] = "absent"

Max(a, b) == IF a >= b THEN a ELSE b

Min(a, b) == IF a <= b THEN a ELSE b

\* the revision number an info response reports
ReportedRevision(r) ==
    CHOOSE n \in 1..MaxRev : r.out = ToXml(InfoDoc(n, TRUE, NoLock))

\* the integer a bound of the range stands for: itself, or what info reported
Resolved(revision, r) ==
    IF revision.isint THEN revision.n ELSE ReportedRevision(r)

RevisionQuery(path, revision) ==
    "svn info " \o path \o " --xml -r " \o revision.s \o " "
    \o svn_fields.str_interactive_option

\* the info queries a range needs: one per symbolic bound, start bound first
RangeQueries(path, range) ==
    (IF range.a.isint THEN <<>> ELSE <<RevisionQuery(path, range.a)>>)
    \o (IF range.b.isint THEN <<>> ELSE <<RevisionQuery(path, range.b)>>)

CmdTexts == [i \in 1..Len(cmds) |-> cmds[i].cmd]

\* C6: rollback of a range whose bounds resolve to the integers a and b runs
\* one info query per symbolic bound and none for an integer bound, and then
\* the merge with the revision option '-r max(a,b):min(a,b)-1'.
C6_RollbackRange ==
    (/\ call.name = "rollback"
     /\ call.revision_or_range.range
     /\ call.info1.code = 0
     /\ call.info2.code = 0) =>
        LET range == call.revision_or_range
            a == Resolved(range.a, call.info1)
            b == Resolved(range.b, call.info2)
        IN  CmdTexts =
                RangeQueries(call.path, range)
                \o <<"svn merge  -r " \o ToString(Max(a, b)) \o ":"
                     \o ToString(Min(a, b) - 1) \o " " \o call.path \o " "
                     \o call.path \o " " \o svn_fields.str_interactive_option>>

C6_Witness ==
    /\ call.name = "rollback"
    /\ call.revision_or_range = Range(RevInt(5), RevInt(10))
    /\ Len(cmds) = 1
    /\ cmds[1].cmd = "svn merge  -r 10:4 wc wc --non-interactive"
    /\ raised = NoExc

\* the first process of a lock call is the lock command, it exited with
\* code 0 and its output starts with 'svn:'
LockReportedAnError ==
    /\ call.name = "lock"
    /\ Len(cmds) >= 1
    /\ StartsWith(cmds[1].cmd, "svn lock " \o call.file_path)
    /\ cmds[1].code = 0
    /\ StartsWith(cmds[1].out, "svn:")

\* the second process is an info query on the locked path that reported the
\* lock node whose fields the error carries
FieldsFromFollowUpInfo ==
    /\ Len(cmds) = 2
    /\ StartsWith(cmds[2].cmd, "svn info " \o call.file_path \o " --xml")
    /\ cmds[2].code = 0
    /\ \E d \in LockInfoDocs :
        /\ cmds[2].out = ToXml(d)
        /\ d.lock.present
        /\ raised.lock_owner = d.lock.owner
        /\ raised.lock_comment = (IF d.lock.has_comment THEN d.lock.comment ELSE "")
        /\ raised.lock_date = d.lock.created

\* the path is locked: an info query on it succeeds and reports a lock node
PathIsLocked ==
    /\ call.info.code = 0
    /\ \E d \in LockInfoDocs : call.info.out = ToXml(d) /\ d.lock.present

IsCopy(p) == StartsWith(p.cmd, "svn copy ")

\* C9: branch with a message first probes the destination with info; a probe
\* that succeeds raises SvnBranchDestinationAlreadyExistError and no copy is
\* started; a probe that fails is swallowed and exactly one copy follows it,
\* whose outcome is the outcome of branch.
C9_BranchProbe ==
    (call.name = "branch" /\ ~NotMsg(call.msg)) =>
        /\ Len(cmds) >= 1
        /\ StartsWith(cmds[1].cmd, "svn info " \o call.dst \o " ")
        /\ cmds[1].code = 0 =>
            /\ raised = SvnBranchDestinationAlreadyExistError(call.dst)
            /\ Len(cmds) = 1
        /\ cmds[1].code # 0 =>
            /\ Len(cmds) = 2
            /\ IsCopy(cmds[2])
            /\ StartsWith(cmds[2].cmd, "svn copy " \o call.src \o " " \o call.dst)
            /\ cmds[2].code = 0 => raised = NoExc
            /\ cmds[2].code # 0 =>
                /\ raised.type = "OsxSystemExecError"
                /\ raised.cmd = cmds[2].cmd

C9_Witness ==
    /\ call.name = "branch"
    /\ Len(cmds) = 2
    /\ cmds[1].code # 0
    /\ IsCopy(cmds[2])
    /\ raised = NoExc

Contains(s, t) == find(s, t) # -1

\* the svn commands among the processes of the call
SvnCmds == {i \in 1..Len(cmds) : StartsWith(cmds[i].cmd, "svn ")}

\* the sub command of an svn command and the path that follows it
SubCommand(cmd) == split(cmd, " ")[2]

FirstPath(cmd) == split(cmd, " ")[3]

\* the sub commands whose command line ends with the credential option
CarriesCredentials(cmd) ==
    \/ SubCommand(cmd) \in {"checkout", "update", "commit", "lock", "unlock",
                            "move", "copy"}
    \/ SubCommand(cmd) \in {"info", "log"} /\ is_url(FirstPath(cmd))

\* C12 as stated: every svn command the wrapper issues contains both
\* --non-interactive and --no-auth-cache, however the Svn object was
\* constructed.
C12_BothOptionsAlways ==
    \A i \in SvnCmds :
        /\ Contains(cmds[i].cmd, "--non-interactive")
        /\ Contains(cmds[i].cmd, "--no-auth-cache")

\* C12 amended: the object holds '--non-interactive' exactly when it was
\* constructed with interactive false, and a credential option exactly when
\* it was constructed with a user and password; an svn command contains
\* --non-interactive exactly when the object holds it, and --no-auth-cache
\* exactly when the object holds a credential option and the sub command is
\* checkout, update, commit, lock, unlock, move or copy, or info or log on a
\* URL (add, resolve, cleanup, revert, status, propset and merge never
\* contain it).
C12_OptionsAsConstructed ==
    /\ call.name = "Svn" =>
        /\ (svn_fields.str_interactive_option = "--non-interactive")
              <=> ~call.interactive
        /\ (svn_fields.str_user_pass_option # "") <=> ~call.user_pass.none
    /\ \A i \in SvnCmds :
        /\ Contains(cmds[i].cmd, "--non-interactive")
              <=> svn_fields.str_interactive_option = "--non-interactive"
        /\ Contains(cmds[i].cmd, "--no-auth-cache")
              <=> /\ svn_fields.str_user_pass_option # ""
                  /\ CarriesCredentials(cmds[i].cmd)

C12_Witness ==
    /\ call.name = "add"
    /\ svn_fields.str_user_pass_option # ""
    /\ svn_fields.str_interactive_option = ""
    /\ Len(cmds) = 1
    /\ cmds[1].cmd = "svn add wc/b.txt "

\* process i of the call failed, the call ended there and the caller got the
\* OsxSystemExecError of that process
EndsCall(i) ==
    /\ i = Len(cmds)
    /\ raised.type = "OsxSystemExecError"
    /\ raised.cmd = cmds[i].cmd
    /\ raised.code = cmds[i].code

HasNode(text, tag) == Contains(text, "<" \o tag \o ">")

\* C14: the record info_dict returns has the key 'wc-info' exactly when the
\* XML entry has a wc-info node and the key 'lock' exactly when the entry has
\* a lock node; for a lock node without a comment child lock['comment'] is
\* the empty string.
C14_OptionalSubtrees ==
    (call.name = "info_dict" /\ raised = NoExc) =>
        LET text == cmds[1].out
        IN  /\ "wc-info" \in DOMAIN ret <=> HasNode(text, "wc-info")
            /\ "lock" \in DOMAIN ret <=> HasNode(text, "lock")
            /\ (HasNode(text, "lock") /\ ~HasNode(text, "comment")) =>
                    ret["lock"].comment = ""

C14_Witness ==
    /\ call.name = "info_dict"
    /\ raised = NoExc
    /\ ~HasNode(cmds[1].out, "wc-info")
    /\ HasNode(cmds[1].out, "lock")
    /\ ~HasNode(cmds[1].out, "comment")
    /\ "wc-info" \notin DOMAIN ret
    /\ ret["lock"].comment = ""

\* the text after the status columns of each line that begins with '?', in
\* the order of the lines
RECURSIVE UnversionedPaths(_)
UnversionedPaths(lines) ==
    IF lines = <<>> THEN <<>>
    ELSE (IF StartsWith(Head(lines), "?") THEN <<SliceFrom(Head(lines), 8)>>
          ELSE <<>>)
         \o UnversionedPaths(Tail(lines))

\* C16: remove_not_versioned that returns has called remove_path once for
\* each line of the status output that begins with '?', on the text after the
\* status columns and in the order of the output, and for no other line.
C16_RemovesUnversioned ==
    (call.name = "remove_not_versioned" /\ raised = NoExc) =>
        ret = UnversionedPaths(splitlines(cmds[1].out))

(***************************************************************************)
(* Claims about the git wrapper (SpecGit).                                 *)
(***************************************************************************)
IsPrefix(s, t) == Len(s) <= Len(t) /\ s = SubSeq(t, 1, Len(s))

\* the steps of get_clean on a path that exists
CleanSteps ==
    <<"git reset --hard", "git fetch", "git checkout " \o call.branch_name,
      "git merge origin/" \o call.branch_name>>
    \o (IF call.revision = PyNone THEN <<>>
        ELSE <<"git reset " \o call.revision \o " --hard">>)

\* C10: get_clean clones only if the path does not exist; on a path that
\* exists it runs reset --hard, fetch, checkout of the branch, merge of
\* origin/branch and, only with a revision, a final hard reset, in this order
\* and each at most once; a step is started only after every earlier step
\* has completed.  (On a path that does not exist the same steps follow the
\* clone.)
C10_GetCleanSteps ==
    call.name = "get_clean" =>
        LET existed == is_path_exist(call.fs, call.path)
            expected ==
                (IF existed THEN <<>>
                 ELSE <<"git clone " \o call.url \o " " \o call.path>>)
                \o CleanSteps
        IN  /\ IsPrefix(CmdTexts, expected)
            /\ \A i \in 1..(Len(cmds) - 1) : cmds[i].code = 0
            /\ raised = NoExc => CmdTexts = expected

C10_Witness ==
    /\ call.name = "get_clean"
    /\ is_dir(call.fs, call.path)
    /\ call.revision # PyNone
    /\ Len(cmds) = 5
    /\ cmds[5].cmd = "git reset a1b2c3d --hard"
    /\ raised = NoExc

\* C11: get_current_branch raises GitParseMetaDataError whenever HEAD is
\* missing, HEAD cannot be read or holds no ': ' separated ref, the ref file
\* is missing or the ref file cannot be read; no other exception leaves it
\* and no (branch, revision) pair is returned.
C11_MetaDataError ==
    (/\ call.name = "get_current_branch"
     /\ \/ ~NamesRef(call.head)
        \/ ~call.ref.exists
        \/ ~call.ref.readable) =>
        /\ raised.type = "GitParseMetaDataError"
        /\ ret = PyNone

\* C17: whenever get_clean ends after its directory change was entered, by
\* returning or because a git step raised OsxSystemExecError, the working
\* directory is the one in effect when get_clean was called, where the
\* ChangeDirectory object was created.
C17_WorkingDirectoryRestored ==
    (call.name = "get_clean" /\ call.entered) =>
        /\ raised.type \in {"None", "OsxSystemExecError"}
        /\ cwd = call.cwd

C17_Witness ==
    /\ call.name = "get_clean"
    /\ call.entered
    /\ call.inside = "C:\\work\\repo"
    /\ Len(cmds) >= 2
    /\ raised.type = "OsxSystemExecError"
    /\ cwd = "C:\\work"

(***************************************************************************)
(* Claims about the archive helper (SpecZip).                              *)
(***************************************************************************)
\* the archive at zip_file_path is the one zip makes of the directory
ZippedFrom(zip_file_path, dir_path) ==
    /\ isdir(files, dir_path)
    /\ isfile(files, zip_file_path)
    /\ files[normpath(zip_file_path)].entries = _zip_dir(files, dir_path)

\* C15: after zip of a directory tree and unzip of the archive into an empty
\* directory, every file and every directory of the tree, empty ones
\* included, is found at the same relative path below the target directory,
\* a file with the same bytes, whether or not the source path was given
\* with a trailing separator.
C15_RoundTrip ==
    (call.name = "unzip" /\ raised = NoExc /\ call.was_empty) =>
        \A dir_path \in {"tree", "tree\\", "tree/"} :
            ZippedFrom(call.zip_file_path, dir_path) =>
                \A q \in DOMAIN files :
                    StartsWith(q, normpath(dir_path) \o "\\") =>
                        LET rel == SliceFrom(q, Len(normpath(dir_path)) + 1)
                            copy == normpath(call.unzip_to_dir) \o "\\" \o rel
                        IN  /\ copy \in DOMAIN files
                            /\ files[copy] = files[q]

C15_Witness ==
    /\ call.name = "unzip"
    /\ raised = NoExc
    /\ call.was_empty
    /\ ZippedFrom("t.zip", "tree\\")
    /\ isdir(files, "tree\\empty")
    /\ isdir(files, "out\\empty")
    /\ isfile(files, "tree\\sub\\sub\\f.txt")
    /\ isfile(files, "out\\sub\\sub\\f.txt")
    /\ files["out\\sub\\sub\\f.txt"].data = "bytes of tree\\sub\\sub\\f.txt\r\n"

====
